---- MODULE Spec2Model ----
(***************************************************************************)
(* World Techno Radio backend (backend/server.py).                         *)
(*                                                                         *)
(* Two state machines share this module:                                   *)
(*   - the favorites store and the three /favorites handlers, run by       *)
(*     concurrent clients (SpecFav);                                       *)
(*   - the station pipeline: upstream resolver, station fetcher, search    *)
(*     and the /stations aggregator, one inbound request at a time         *)
(*     (Spec), and a bare call of fetch_radio_stations(tag, limit)         *)
(*     (SpecFetch).                                                        *)
(***************************************************************************)
EXTENDS Integers, Sequences, FiniteSets, TLC

VARIABLES
    \* ---- favorites store and its handlers
    favorites,      \* db.favorites: documents in insertion (natural) order
    clock,          \* number of FavoriteStation objects constructed so far
    fpc,            \* per client: position inside its handler
    freq,           \* per client: the request being served
    fresp,          \* per client: the last response
    \* ---- station pipeline
    route,          \* the inbound request being served
    pc,             \* position: idle / probe / send / recv / done
    gi,             \* index into genres of the running fetch
    tag,            \* tag (or query) of the running fetch
    limit,          \* limit of the running fetch
    probeIdx,       \* index into servers of the next candidate to probe
    probes,         \* probes of the resolver invocation that precedes a data call
    server,         \* value returned by the resolver
    inflight,       \* the upstream data call that is in flight
    resolverCalls,  \* resolver invocations made by the running request
    tagsFetched,    \* tags of the data calls issued by the running request
    results,        \* lists returned by the fetches of the running request
    failed,         \* indices of the fetches that failed upstream
    upstream,       \* payload of the latest data call answered
    all_stations,   \* get_all_electronic_stations: all_stations
    unique_stations,\* get_all_electronic_stations: unique_stations
    response        \* the response of the running request

favVars == <<favorites, clock, fpc, freq, fresp>>
apiVars == <<route, pc, gi, tag, limit, probeIdx, probes, server, inflight,
             resolverCalls, tagsFetched, results, failed, upstream,
             all_stations, unique_stations, response>>
vars == <<favorites, clock, fpc, freq, fresp,
          route, pc, gi, tag, limit, probeIdx, probes, server, inflight,
          resolverCalls, tagsFetched, results, failed, upstream,
          all_stations, unique_stations, response>>

(***************************************************************************)
(* Bounds of the model.                                                    *)
(***************************************************************************)
NumClients == 2
NumUuids == 2
MaxAdds == 3
MaxUpstream == 2
BlockExtra == 1
ClickLevels == 3

(***************************************************************************)
(* Generic helpers.                                                        *)
(***************************************************************************)
Min(a, b) == IF a <= b THEN a ELSE b

\* Python slice s[:n] for n >= 0.
Take(s, n) == SubSeq(s, 1, Min(n, Len(s)))

\* Values a dict lookup can produce for a key that is missing or null.
Absent == -1
Null == -2
NoneStr == "<None>"

(***************************************************************************)
(* Favorites: db.favorites and the /favorites handlers.                    *)
(***************************************************************************)
Clients == 1..NumClients
Uuids == 1..NumUuids
NoRequest == [op |-> "none", stationuuid |-> 0, favorite |-> <<>>]
NoResponse == [status |-> 0, message |-> "", body |-> <<>>]

\* to_list(100) of get_favorite_stations.
ListLimit == 100

\* FavoriteStation(...): id and created_at come from the default factories.
FavoriteStation(s, n) == [id |-> n, stationuuid |-> s, created_at |-> n]

\* db.favorites.find_one({"stationuuid": s}): the first match, or <<>>.
MatchIdx(s) == {i \in 1..Len(favorites) : favorites[i].stationuuid = s}
FirstMatch(s) == CHOOSE i \in MatchIdx(s) : \A j \in MatchIdx(s) : i <= j
find_one(s) == IF MatchIdx(s) = {} THEN <<>> ELSE <<favorites[FirstMatch(s)]>>

\* db.favorites.delete_one({"stationuuid": s}): removes the first match.
deleted_count(s) == IF MatchIdx(s) = {} THEN 0 ELSE 1
delete_one(s) ==
    IF MatchIdx(s) = {} THEN favorites
    ELSE SubSeq(favorites, 1, FirstMatch(s) - 1)
         \o SubSeq(favorites, FirstMatch(s) + 1, Len(favorites))

\* find().sort("created_at", -1): insertion of each document before the
\* first one that is strictly older.
RECURSIVE SortCreatedDesc(_)
InsertCreatedDesc(sorted, d) ==
    LET older == {i \in 1..Len(sorted) : sorted[i].created_at < d.created_at}
        pos == IF older = {} THEN Len(sorted) + 1
               ELSE CHOOSE i \in older : \A j \in older : i <= j
    IN SubSeq(sorted, 1, pos - 1) \o <<d>> \o SubSeq(sorted, pos, Len(sorted))
SortCreatedDesc(docs) ==
    IF docs = <<>> THEN <<>>
    ELSE InsertCreatedDesc(SortCreatedDesc(SubSeq(docs, 1, Len(docs) - 1)),
                           docs[Len(docs)])
ListFavorites(docs) == Take(SortCreatedDesc(docs), ListLimit)

\* `except Exception` of a route handler: whatever was raised inside the
\* try block, an HTTPException included, leaves as HTTPException(500).
ExceptException(raised) == 500

\* remove_favorite_station after delete_one returned.
RemoveStatus(n) == IF n > 0 THEN 200 ELSE ExceptException(404)

InitFav ==
    /\ favorites = <<>>
    /\ clock = 0
    /\ fpc = [c \in Clients |-> "idle"]
    /\ freq = [c \in Clients |-> NoRequest]
    /\ fresp = [c \in Clients |-> NoResponse]

\* POST /favorites with stationuuid, name and url present: the
\* FavoriteStation is built, then find_one is awaited.
AddBegin(c, s) ==
    /\ fpc[c] = "idle"
    /\ clock < MaxAdds
    /\ clock' = clock + 1
    /\ freq' = [freq EXCEPT ![c] = [op |-> "add", stationuuid |-> s,
                                    favorite |-> <<FavoriteStation(s, clock + 1)>>]]
    /\ fpc' = [fpc EXCEPT ![c] = "add_find"]
    /\ fresp' = [fresp EXCEPT ![c] = NoResponse]
    /\ UNCHANGED favorites

\* POST /favorites whose body lacks a required key: KeyError, caught.
AddBadBody(c) ==
    /\ fpc[c] = "idle"
    /\ freq' = [freq EXCEPT ![c] = [op |-> "add", stationuuid |-> 0,
                                    favorite |-> <<>>]]
    /\ fpc' = [fpc EXCEPT ![c] = "done"]
    /\ fresp' = [fresp EXCEPT ![c] =
                    [status |-> ExceptException(0),
                     message |-> "Failed to add favorite", body |-> <<>>]]
    /\ UNCHANGED <<favorites, clock>>

\* find_one answers; an existing record ends the request.
AddFind(c) ==
    /\ fpc[c] = "add_find"
    /\ LET existing == find_one(freq[c].stationuuid)
       IN IF existing # <<>>
          THEN /\ fpc' = [fpc EXCEPT ![c] = "done"]
               /\ fresp' = [fresp EXCEPT ![c] =
                               [status |-> 200,
                                message |-> "Station already in favorites",
                                body |-> existing]]
          ELSE /\ fpc' = [fpc EXCEPT ![c] = "add_insert"]
               /\ UNCHANGED fresp
    /\ UNCHANGED <<favorites, clock, freq>>

\* insert_one answers.
AddInsert(c) ==
    /\ fpc[c] = "add_insert"
    /\ favorites' = favorites \o freq[c].favorite
    /\ fpc' = [fpc EXCEPT ![c] = "done"]
    /\ fresp' = [fresp EXCEPT ![c] =
                    [status |-> 200, message |-> "Station added to favorites",
                     body |-> freq[c].favorite]]
    /\ UNCHANGED <<clock, freq>>

\* DELETE /favorites/{s}.
Remove(c, s) ==
    /\ fpc[c] = "idle"
    /\ favorites' = delete_one(s)
    /\ freq' = [freq EXCEPT ![c] = [op |-> "remove", stationuuid |-> s,
                                    favorite |-> <<>>]]
    /\ fpc' = [fpc EXCEPT ![c] = "done"]
    /\ fresp' = [fresp EXCEPT ![c] =
                    [status |-> RemoveStatus(deleted_count(s)),
                     message |-> IF deleted_count(s) > 0
                                 THEN "Station removed from favorites"
                                 ELSE "Failed to remove favorite",
                     body |-> <<>>]]
    /\ UNCHANGED clock

\* GET /favorites.
ListAll(c) ==
    /\ fpc[c] = "idle"
    /\ freq' = [freq EXCEPT ![c] = [op |-> "list", stationuuid |-> 0,
                                    favorite |-> <<>>]]
    /\ fpc' = [fpc EXCEPT ![c] = "done"]
    /\ fresp' = [fresp EXCEPT ![c] =
                    [status |-> 200, message |-> "",
                     body |-> ListFavorites(favorites)]]
    /\ UNCHANGED <<favorites, clock>>

\* The client has read its response and may send another request.
FavDone(c) ==
    /\ fpc[c] = "done"
    /\ fpc' = [fpc EXCEPT ![c] = "idle"]
    /\ UNCHANGED <<favorites, clock, freq, fresp>>

(***************************************************************************)
(* Station pipeline: constants of server.py.                               *)
(***************************************************************************)
servers == <<"https://de1.api.radio-browser.info",
             "https://at1.api.radio-browser.info",
             "https://nl1.api.radio-browser.info",
             "https://fr1.api.radio-browser.info">>
FallbackServer == "https://at1.api.radio-browser.info"
genres == <<"electronic", "techno", "house", "trance", "dance", "edm">>
MinBitrate == 64
AggLimit == 20
DefaultLimit == 50
SearchLimit == 30
MaxStations == 100

\* What a health probe can end in, and what a data call can end in.
ProbeOutcomes == {"200", "non200", "network_error", "timeout"}
DataOutcomes == {"200", "non200", "network_error", "timeout", "malformed"}

NoServer == ""
NoCall == [server |-> NoServer, path |-> "", arg |-> "", limit |-> 0]
NoApiResponse == [status |-> 0, stations |-> <<>>, count |-> 0]

(***************************************************************************)
(* Text of a tags field: a sequence of characters, so that lower() and     *)
(* the substring test of search_radio_stations are computed.               *)
(***************************************************************************)
UpperChars == <<"A", "B", "C", "D", "E", "F", "G", "H", "I", "J", "K", "L", "M",
                "N", "O", "P", "Q", "R", "S", "T", "U", "V", "W", "X", "Y", "Z">>
LowerChars == <<"a", "b", "c", "d", "e", "f", "g", "h", "i", "j", "k", "l", "m",
                "n", "o", "p", "q", "r", "s", "t", "u", "v", "w", "x", "y", "z">>
LowerChar(ch) ==
    IF \E i \in 1..Len(UpperChars) : UpperChars[i] = ch
    THEN LowerChars[CHOOSE i \in 1..Len(UpperChars) : UpperChars[i] = ch]
    ELSE ch
Lower(text) == [i \in 1..Len(text) |-> LowerChar(text[i])]
Contains(text, word) ==
    \E i \in 1..(Len(text) - Len(word) + 1) :
        SubSeq(text, i, i + Len(word) - 1) = word
vocabulary == << <<"e", "l", "e", "c", "t", "r", "o", "n", "i", "c">>,
                 <<"t", "e", "c", "h", "n", "o">>,
                 <<"h", "o", "u", "s", "e">>,
                 <<"t", "r", "a", "n", "c", "e">>,
                 <<"d", "a", "n", "c", "e">>,
                 <<"e", "d", "m">> >>

(***************************************************************************)
(* Station records as the upstream sends them.  A key that is missing has   *)
(* the value Absent (numbers) or NoneStr (strings); a JSON null clickcount *)
(* has the value Null.                                                     *)
(***************************************************************************)
Station(u, n, b, l, r, c, t) ==
    [stationuuid |-> u, name |-> n, bitrate |-> b, url |-> l,
     url_resolved |-> r, clickcount |-> c, tags |-> t]

\* station.get('bitrate', 0)
BitrateOf(st) == IF st.bitrate = Absent THEN 0 ELSE st.bitrate
\* truth value of station.get('url') / station.get('url_resolved')
Truthy(v) == v # NoneStr /\ v # ""
\* x.get('clickcount', 0): a missing key gives 0, a null stays None
ClickKey(st) == IF st.clickcount = Absent THEN 0 ELSE st.clickcount
\* station.get('tags', '')
TagsOf(st) == st.tags

\* Faulty variant of Qualifies: the test of url is left out.
QualifiesIgnoringUrl(st) ==
    /\ BitrateOf(st) >= MinBitrate
    /\ Truthy(st.url_resolved)

\* The condition of the list comprehension of fetch_radio_stations.
Qualifies(st) ==
    /\ BitrateOf(st) >= MinBitrate
    /\ Truthy(st.url)
    /\ Truthy(st.url_resolved)

\* The condition of the list comprehension of search_radio_stations.
Relevant(st) ==
    /\ \E k \in 1..Len(vocabulary) : Contains(Lower(TagsOf(st)), vocabulary[k])
    /\ BitrateOf(st) >= MinBitrate
    /\ Truthy(st.url_resolved)

\* [station for station in data if ...], in order.
FilterQualifies(data) == SelectSeq(data, Qualifies)
FilterRelevant(data) == SelectSeq(data, Relevant)

\* What fetch_radio_stations returns once the data call has ended in
\* outcome o with payload data: anything but a parsed 200 gives [].
FetchResult(o, data, lim) ==
    IF o = "200" THEN Take(FilterQualifies(data), lim) ELSE <<>>

\* What search_radio_stations returns.
SearchResult(o, data, lim) ==
    IF o = "200" THEN Take(FilterRelevant(data), lim) ELSE <<>>

(***************************************************************************)
(* Aggregation: dedup, ranking and truncation of                           *)
(* get_all_electronic_stations.                                            *)
(***************************************************************************)
\* Faulty variant of Dedup: the last occurrence of a stationuuid is kept.
DedupKeepLast(list) ==
    LET Keep(i) == \A j \in (i + 1)..Len(list) :
                       list[j].stationuuid # list[i].stationuuid
        kept == SelectSeq([i \in 1..Len(list) |-> i], Keep)
    IN [k \in 1..Len(kept) |-> list[kept[k]]]

\* for station in all_stations: if uuid not in seen: seen.add(uuid);
\* unique_stations.append(station).  When the loop reaches position i,
\* seen holds the stationuuids of the positions before i.
SeenBefore(list, i) == {list[j].stationuuid : j \in 1..(i - 1)}
Dedup(list) ==
    LET Keep(i) == list[i].stationuuid \notin SeenBefore(list, i)
        kept == SelectSeq([i \in 1..Len(list) |-> i], Keep)
    IN [k \in 1..Len(kept) |-> list[kept[k]]]

\* list.sort compares keys; comparing None with anything raises TypeError.
\* A list of fewer than two elements is never compared.
SortRaises(list) ==
    /\ Len(list) >= 2
    /\ \E i \in 1..Len(list) : ClickKey(list[i]) = Null

\* list.sort(key=ClickKey, reverse=True): a stable descending sort,
\* computed key by key from the largest key down; the stations of one key
\* keep the order they have in list.
WithKey(list, k) == LET HasKey(st) == ClickKey(st) = k IN SelectSeq(list, HasKey)
RECURSIVE SortKeys(_, _)
SortKeys(list, keys) ==
    IF keys = {} THEN <<>>
    ELSE LET k == CHOOSE x \in keys : \A y \in keys : y <= x
         IN WithKey(list, k) \o SortKeys(list, keys \ {k})
SortByClickDesc(list) ==
    SortKeys(list, {ClickKey(list[i]) : i \in 1..Len(list)})

\* Faulty variant of AllStationsResponse: count is the length before the
\* truncation.
AllStationsResponseTotalCount(ranked) ==
    [status |-> 200, stations |-> Take(ranked, MaxStations),
     count |-> Len(ranked)]

\* The body returned by get_all_electronic_stations.
AllStationsResponse(ranked) ==
    [status |-> 200, stations |-> Take(ranked, MaxStations),
     count |-> Len(Take(ranked, MaxStations))]

\* The body returned by get_stations_by_genre and search_stations.
StationsResponse(stations) ==
    [status |-> 200, stations |-> stations, count |-> Len(stations)]

ErrorResponse == [status |-> ExceptException(0), stations |-> <<>>, count |-> 0]

(***************************************************************************)
(* Upstream payloads the model offers to a data call.                      *)
(***************************************************************************)
GoodUrl == "http://a"
GoodResolved == "http://r"
RockTags == <<"R", "o", "c", "k">>
TechnoTags == <<"t", "E", "c", "h", "n", "o">>

\* Every list of at most MaxUpstream stations whose fields range over the
\* values around the filter that reads them: bitrate, url and
\* url_resolved for a fetch by tag; bitrate, url_resolved and tags for a
\* search.  The stationuuid of a station is its position in the list.
FetchKinds == [bitrate : {Absent, MinBitrate - 1, MinBitrate},
               url : {"", GoodUrl},
               url_resolved : {NoneStr, GoodResolved},
               tags : {TechnoTags}]
SearchKinds == [bitrate : {Absent, MinBitrate - 1, MinBitrate},
                url : {GoodUrl},
                url_resolved : {NoneStr, GoodResolved},
                tags : {RockTags, TechnoTags}]
SmallPayloads(kinds) ==
    UNION {{[i \in 1..n |-> Station(i, "s", k[i].bitrate, k[i].url,
                                    k[i].url_resolved, 0, k[i].tags)] :
            k \in [1..n -> kinds]} : n \in 0..MaxUpstream}

\* n playable stations with consecutive stationuuids above base.
Block(base, n, nm) ==
    [i \in 1..n |-> Station(base + i, nm, 2 * MinBitrate, GoodUrl, GoodResolved,
                            i % ClickLevels, IF base = 0 THEN TechnoTags ELSE <<>>)]

\* 15 stations of which the 5 at positions 3, 6, 9, 12, 15 have a bitrate
\* below 64.
Scenario ==
    [i \in 1..15 |-> Station(i, "s", IF i % 3 = 0 THEN MinBitrate \div 2
                                     ELSE 2 * MinBitrate,
                             GoodUrl, GoodResolved, 15 - i, TechnoTags)]

\* Stations that several genres return: the same stationuuids under every
\* genre (the name tells the copies apart), clickcounts that differ from
\* genre to genre and may be missing, one station without stationuuid,
\* one that collides with the first station of Block(100, ...), one whose
\* bitrate is too low, and a second record of stationuuid 1.
Shared(g) ==
    [i \in 1..(NumUuids + 4) |->
        IF i <= NumUuids
        THEN Station(i, genres[g], MinBitrate, GoodUrl, GoodResolved,
                     IF (i + g) % 2 = 0 THEN Absent ELSE (i + g) % ClickLevels,
                     <<>>)
        ELSE IF i = NumUuids + 1
        THEN Station(Absent, genres[g], MinBitrate, GoodUrl, GoodResolved,
                     g % ClickLevels, <<>>)
        ELSE IF i = NumUuids + 2
        THEN Station(101, genres[g], MinBitrate, GoodUrl, GoodResolved,
                     ClickLevels, <<>>)
        ELSE IF i = NumUuids + 3
        THEN Station(100 + i, genres[g], MinBitrate - 1, GoodUrl, GoodResolved,
                     ClickLevels, <<>>)
        ELSE Station(1, "again", MinBitrate, GoodUrl, GoodResolved,
                     ClickLevels + 1, <<>>)]

\* One playable station whose clickcount is a JSON null.
NullClick(g) ==
    <<Station(100 * g + 50, genres[g], MinBitrate, GoodUrl, GoodResolved,
              Null, <<>>)>>

AggPayloads(g) ==
    {Block(100 * g, AggLimit + BlockExtra, genres[g]), Shared(g), NullClick(g)}

Payloads ==
    IF route = "all" THEN AggPayloads(gi)
    ELSE IF route = "search"
    THEN SmallPayloads(SearchKinds) \cup {Block(0, limit + BlockExtra, "s")}
    ELSE SmallPayloads(FetchKinds)
         \cup {Block(0, limit + BlockExtra, "s"), Scenario}

GenreRequests == {"techno", "invalidgenre"}
SearchRequests == {"radio"}
FetchLimits == (0..MaxUpstream) \cup {10, AggLimit, DefaultLimit}

(***************************************************************************)
(* Station pipeline: actions.                                              *)
(***************************************************************************)
InitApi ==
    /\ route = "none"
    /\ pc = "idle"
    /\ gi = 0
    /\ tag = ""
    /\ limit = 0
    /\ probeIdx = 0
    /\ probes = <<>>
    /\ server = NoServer
    /\ inflight = NoCall
    /\ resolverCalls = 0
    /\ tagsFetched = <<>>
    /\ results = <<>>
    /\ failed = {}
    /\ upstream = <<>>
    /\ all_stations = <<>>
    /\ unique_stations = <<>>
    /\ response = NoApiResponse

\* Faulty variant of CallFetch: the resolver runs for the first fetch of a
\* request only.
CallFetchResolvingOnce(t, l, n) ==
    /\ tag' = t
    /\ limit' = l
    /\ gi' = n
    /\ probeIdx' = 1
    /\ probes' = <<>>
    /\ server' = NoServer
    /\ resolverCalls' = IF n = 1 THEN resolverCalls + 1 ELSE resolverCalls
    /\ pc' = "probe"

\* fetch_radio_stations(t, l) / search_radio_stations(t, l) is entered: its
\* first statement awaits get_radio_browser_servers(), which starts
\* probing at the head of servers.
CallFetch(t, l, n) ==
    /\ tag' = t
    /\ limit' = l
    /\ gi' = n
    /\ probeIdx' = 1
    /\ probes' = <<>>
    /\ server' = NoServer
    /\ resolverCalls' = resolverCalls + 1
    /\ pc' = "probe"

\* GET /stations
StartAll ==
    /\ pc = "idle"
    /\ route' = "all"
    /\ CallFetch(genres[1], AggLimit, 1)
    /\ UNCHANGED <<inflight, tagsFetched, results, failed, upstream,
                   all_stations, unique_stations, response>>

\* GET /stations/{genre}
StartGenre(g) ==
    /\ pc = "idle"
    /\ route' = "genre"
    /\ CallFetch(g, DefaultLimit, 1)
    /\ UNCHANGED <<inflight, tagsFetched, results, failed, upstream,
                   all_stations, unique_stations, response>>

\* GET /search/{query}
StartSearch(q) ==
    /\ pc = "idle"
    /\ route' = "search"
    /\ CallFetch(q, SearchLimit, 1)
    /\ UNCHANGED <<inflight, tagsFetched, results, failed, upstream,
                   all_stations, unique_stations, response>>

\* Faulty variant of ProbeSucceeds: any answered probe counts.
ProbeSucceedsOnAnyAnswer(o) == o \in {"200", "non200"}

\* response.status == 200 of a probe that was answered.
ProbeSucceeds(o) == o = "200"

\* The for loop of get_radio_browser_servers is left after candidate i.
LastCandidate(i) == i = Len(servers)

\* One probe of get_radio_browser_servers ends in outcome o.  A 200 returns
\* the candidate; anything else continues with the next candidate, and
\* after the last one the loop ends and the default is returned.
Probe(o) ==
    /\ pc = "probe"
    /\ probes' = Append(probes, [server |-> servers[probeIdx],
                               answered200 |-> o = "200"])
    /\ IF ProbeSucceeds(o)
       THEN /\ server' = servers[probeIdx]
            /\ pc' = "send"
            /\ UNCHANGED probeIdx
       ELSE IF LastCandidate(probeIdx)
       THEN /\ server' = FallbackServer
            /\ pc' = "send"
            /\ UNCHANGED probeIdx
       ELSE /\ probeIdx' = probeIdx + 1
            /\ UNCHANGED <<server, pc>>
    /\ UNCHANGED <<route, gi, tag, limit, inflight, resolverCalls, tagsFetched,
                   results, failed, upstream, all_stations, unique_stations,
                   response>>

\* The base URL the data call is sent to: the resolver's return value.
DataTarget == server

\* session.get(url, params=params, timeout=10) is issued.
DataSend ==
    /\ pc = "send"
    /\ inflight' = [server |-> DataTarget,
                    path |-> IF route = "search" THEN "/json/stations/byname/"
                             ELSE "/json/stations/bytag/",
                    arg |-> tag, limit |-> limit]
    /\ tagsFetched' = Append(tagsFetched, tag)
    /\ probes' = <<>>
    /\ pc' = "recv"
    /\ UNCHANGED <<route, gi, tag, limit, probeIdx, server,
                   resolverCalls, results, failed, upstream, all_stations,
                   unique_stations, response>>

\* How the data call in flight can end: an outcome and, for a 200 answer,
\* the payload it carries.
Answers ==
    IF pc # "recv" THEN {}
    ELSE ({"200"} \X Payloads) \cup ((DataOutcomes \ {"200"}) \X {<<>>})

\* The data call of a fetch inside the genre loop ends, the fetch returns,
\* all_stations is extended and the next genre's fetch is entered.
FetchReturnsInLoop(o, data) ==
    /\ pc = "recv"
    /\ route = "all"
    /\ gi < Len(genres)
    /\ LET stations == FetchResult(o, data, limit)
       IN /\ all_stations' = all_stations \o stations
          /\ results' = Append(results, stations)
    /\ failed' = IF o = "200" THEN failed ELSE failed \cup {gi}
    /\ upstream' = data
    /\ inflight' = NoCall
    /\ CallFetch(genres[gi + 1], AggLimit, gi + 1)
    /\ UNCHANGED <<route, tagsFetched, unique_stations, response>>

\* The data call of the last genre ends: dedup, sort, truncate, respond.
FetchReturnsLast(o, data) ==
    /\ pc = "recv"
    /\ route = "all"
    /\ gi = Len(genres)
    /\ LET stations == FetchResult(o, data, limit)
           uniq == Dedup(all_stations \o stations)
       IN /\ all_stations' = all_stations \o stations
          /\ results' = Append(results, stations)
          /\ IF SortRaises(uniq)
             THEN /\ unique_stations' = uniq
                  /\ response' = ErrorResponse
             ELSE /\ unique_stations' = SortByClickDesc(uniq)
                  /\ response' = AllStationsResponse(SortByClickDesc(uniq))
    /\ failed' = IF o = "200" THEN failed ELSE failed \cup {gi}
    /\ upstream' = data
    /\ inflight' = NoCall
    /\ pc' = "done"
    /\ probeIdx' = 0
    /\ server' = NoServer
    /\ UNCHANGED <<route, gi, tag, limit, probes,
                   resolverCalls, tagsFetched>>

\* get_stations_by_genre: the single fetch returns.
GenreReturns(o, data) ==
    /\ pc = "recv"
    /\ route = "genre"
    /\ results' = <<FetchResult(o, data, limit)>>
    /\ response' = StationsResponse(FetchResult(o, data, limit))
    /\ failed' = IF o = "200" THEN failed ELSE failed \cup {gi}
    /\ upstream' = data
    /\ inflight' = NoCall
    /\ pc' = "done"
    /\ probeIdx' = 0
    /\ server' = NoServer
    /\ UNCHANGED <<route, gi, tag, limit, probes,
                   resolverCalls, tagsFetched, all_stations, unique_stations>>

\* search_stations: the single search returns.
SearchReturns(o, data) ==
    /\ pc = "recv"
    /\ route = "search"
    /\ results' = <<SearchResult(o, data, limit)>>
    /\ response' = StationsResponse(SearchResult(o, data, limit))
    /\ failed' = IF o = "200" THEN failed ELSE failed \cup {gi}
    /\ upstream' = data
    /\ inflight' = NoCall
    /\ pc' = "done"
    /\ probeIdx' = 0
    /\ server' = NoServer
    /\ UNCHANGED <<route, gi, tag, limit, probes,
                   resolverCalls, tagsFetched, all_stations, unique_stations>>

\* A bare call fetch_radio_stations(tag, limit) returns to its caller.
DirectReturns(o, data) ==
    /\ pc = "recv"
    /\ route = "direct"
    /\ results' = <<FetchResult(o, data, limit)>>
    /\ failed' = IF o = "200" THEN failed ELSE failed \cup {gi}
    /\ upstream' = data
    /\ inflight' = NoCall
    /\ pc' = "done"
    /\ probeIdx' = 0
    /\ server' = NoServer
    /\ UNCHANGED <<route, gi, tag, limit, probes,
                   resolverCalls, tagsFetched, all_stations, unique_stations,
                   response>>

\* The response has been sent; the next inbound request starts afresh.
Finish ==
    /\ pc = "done"
    /\ route' = "none"
    /\ pc' = "idle"
    /\ gi' = 0
    /\ tag' = ""
    /\ limit' = 0
    /\ probeIdx' = 0
    /\ probes' = <<>>
    /\ server' = NoServer
    /\ inflight' = NoCall
    /\ resolverCalls' = 0
    /\ tagsFetched' = <<>>
    /\ results' = <<>>
    /\ failed' = {}
    /\ upstream' = <<>>
    /\ all_stations' = <<>>
    /\ unique_stations' = <<>>
    /\ response' = NoApiResponse

(***************************************************************************)
(* Specifications.                                                         *)
(***************************************************************************)
Init == InitFav /\ InitApi

\* The station pipeline behind the three station routes.
Next ==
    \/ StartAll /\ UNCHANGED favVars
    \/ (\E g \in GenreRequests : StartGenre(g)) /\ UNCHANGED favVars
    \/ (\E q \in SearchRequests : StartSearch(q)) /\ UNCHANGED favVars
    \/ (\E o \in ProbeOutcomes : Probe(o)) /\ UNCHANGED favVars
    \/ DataSend /\ UNCHANGED favVars
    \/ (\E a \in Answers : FetchReturnsInLoop(a[1], a[2])) /\ UNCHANGED favVars
    \/ (\E a \in Answers : FetchReturnsLast(a[1], a[2])) /\ UNCHANGED favVars
    \/ (\E a \in Answers : GenreReturns(a[1], a[2])) /\ UNCHANGED favVars
    \/ (\E a \in Answers : SearchReturns(a[1], a[2])) /\ UNCHANGED favVars
    \/ Finish /\ UNCHANGED favVars

Spec == Init /\ [][Next]_vars

\* The favorites handlers, run by concurrent clients.
NextFav ==
    \/ (\E c \in Clients, s \in Uuids : AddBegin(c, s)) /\ UNCHANGED apiVars
    \/ (\E c \in Clients : AddBadBody(c)) /\ UNCHANGED apiVars
    \/ (\E c \in Clients : AddFind(c)) /\ UNCHANGED apiVars
    \/ (\E c \in Clients : AddInsert(c)) /\ UNCHANGED apiVars
    \/ (\E c \in Clients, s \in Uuids : Remove(c, s)) /\ UNCHANGED apiVars
    \/ (\E c \in Clients : ListAll(c)) /\ UNCHANGED apiVars
    \/ (\E c \in Clients : FavDone(c)) /\ UNCHANGED apiVars

SpecFav == Init /\ [][NextFav]_vars

\* A bare call of fetch_radio_stations(tag, limit), for every limit of
\* FetchLimits.
InitFetch ==
    /\ InitFav
    /\ route = "direct"
    /\ pc = "probe"
    /\ gi = 1
    /\ tag = "techno"
    /\ limit \in FetchLimits
    /\ probeIdx = 1
    /\ probes = <<>>
    /\ server = NoServer
    /\ inflight = NoCall
    /\ resolverCalls = 1
    /\ tagsFetched = <<>>
    /\ results = <<>>
    /\ failed = {}
    /\ upstream = <<>>
    /\ all_stations = <<>>
    /\ unique_stations = <<>>
    /\ response = NoApiResponse

NextFetch ==
    \/ (\E o \in ProbeOutcomes : Probe(o)) /\ UNCHANGED favVars
    \/ DataSend /\ UNCHANGED favVars
    \/ (\E a \in Answers : DirectReturns(a[1], a[2])) /\ UNCHANGED favVars

SpecFetch == InitFetch /\ [][NextFetch]_vars

(***************************************************************************)
(* Properties.                                                             *)
(***************************************************************************)
RECURSIVE Flatten(_)
Flatten(lists) ==
    IF lists = <<>> THEN <<>> ELSE Head(lists) \o Flatten(Tail(lists))

\* Position of the first station of list that carries stationuuid u.
FirstIdx(list, u) ==
    CHOOSE i \in 1..Len(list) :
        /\ list[i].stationuuid = u
        /\ \A j \in 1..(i - 1) : list[j].stationuuid # u

RemoveStep(c) ==
    /\ fpc[c] = "idle"
    /\ fpc'[c] = "done"
    /\ freq'[c].op = "remove"

AllDone == pc = "done" /\ route = "all"

\* C1: a DELETE /favorites/{stationuuid} for a stationuuid without a record
\* in the store is answered 404 and leaves the store unchanged.
C1_UnknownDeleteIs404 ==
    [][\A c \in Clients :
          (RemoveStep(c) /\ MatchIdx(freq'[c].stationuuid) = {})
          => (fresp'[c].status = 404 /\ favorites' = favorites)]_vars

\* C2: whatever the interleaving of add-favorite requests, the store holds
\* at most one record per stationuuid.
C2_OneRecordPerStation ==
    \A i, j \in 1..Len(favorites) :
        i # j => favorites[i].stationuuid # favorites[j].stationuuid

\* C3: when a delete of stationuuid s is answered 200, a list issued right
\* after it (no add in between) holds no record of s.
C3_DeletedIsNotListed ==
    [][\A c \in Clients :
          (RemoveStep(c) /\ fresp'[c].status = 200)
          => \A k \in 1..Len(ListFavorites(favorites')) :
                ListFavorites(favorites')[k].stationuuid
                    # freq'[c].stationuuid]_vars

\* C4: the list returned by /stations has no two stations with the same
\* stationuuid, and each returned record is the first occurrence of its
\* stationuuid in genre-processing order.
C4_UniqueFirstOccurrence ==
    (AllDone /\ response.status = 200) =>
        LET out == response.stations
            flat == Flatten(results)
        IN /\ \A i, j \in 1..Len(out) :
                 i # j => out[i].stationuuid # out[j].stationuuid
           /\ \A i \in 1..Len(out) :
                 out[i] = flat[FirstIdx(flat, out[i].stationuuid)]

\* C4 happens: a stationuuid was returned under two genres with different
\* records, and the response holds it.
C4_Witness ==
    /\ AllDone
    /\ response.status = 200
    /\ \E a, b \in 1..Len(all_stations) :
          /\ a < b
          /\ all_stations[a].stationuuid = all_stations[b].stationuuid
          /\ all_stations[a] # all_stations[b]
          /\ \E i \in 1..Len(response.stations) :
                response.stations[i].stationuuid = all_stations[a].stationuuid

\* The rank C5 gives a station: its clickcount, 0 when missing or null.
Rank(st) == IF st.clickcount \in {Absent, Null} THEN 0 ELSE st.clickcount

\* C5: /stations answers with the deduplicated stations ordered by
\* clickcount descending, a missing or null clickcount ranking as 0, and
\* stations of equal clickcount in first-seen order.
C5_RankedByClickcount ==
    AllDone =>
        /\ response.status = 200
        /\ LET out == response.stations
               flat == Flatten(results)
           IN \A i \in 1..(Len(out) - 1) :
                 \/ Rank(out[i]) > Rank(out[i + 1])
                 \/ /\ Rank(out[i]) = Rank(out[i + 1])
                    /\ FirstIdx(flat, out[i].stationuuid)
                         < FirstIdx(flat, out[i + 1].stationuuid)

\* C6: the /stations response never holds more than 100 stations, it is
\* the first 100 of the ranked list when more were fetched, and count is
\* the length of the returned list.
C6_AtMost100AndCount ==
    (AllDone /\ response.status = 200) =>
        /\ Len(response.stations) <= 100
        /\ response.count = Len(response.stations)
        /\ Len(response.stations) = Min(100, Len(unique_stations))
        /\ \A i \in 1..Len(response.stations) :
              response.stations[i] = unique_stations[i]

\* C6 happens: more than 100 unique stations were fetched.
C6_Witness ==
    /\ AllDone
    /\ response.status = 200
    /\ Len(unique_stations) > 100
    /\ response.count = 100

\* The stations C7 lets through.
Playable(st) ==
    /\ st.bitrate # Absent
    /\ st.bitrate >= 64
    /\ st.url \notin {NoneStr, ""}
    /\ st.url_resolved \notin {NoneStr, ""}

\* C7: for an upstream 200 answer, fetch_radio_stations(tag, limit) returns
\* the stations with bitrate >= 64, non-empty url and non-empty
\* url_resolved, in upstream order, cut to the first limit of them.
C7_FilteredPrefix ==
    (pc = "done" /\ route = "direct" /\ failed = {}) =>
        LET out == results[1]
            good == {i \in 1..Len(upstream) : Playable(upstream[i])}
        IN /\ Len(out) = Min(limit, Cardinality(good))
           /\ \A k \in 1..Len(out) :
                 \E i \in good :
                    /\ Cardinality({j \in good : j <= i}) = k
                    /\ out[k] = upstream[i]
           /\ \A k \in 1..Len(out) :
                 out[k].bitrate >= 64 /\ out[k].url_resolved \notin {NoneStr, ""}

\* C7 happens: 15 upstream stations, 5 of them below 64, limit 10, and the
\* 10 others are returned.
C7_Witness ==
    /\ pc = "done"
    /\ route = "direct"
    /\ failed = {}
    /\ Len(upstream) = 15
    /\ Cardinality({i \in 1..15 : upstream[i].bitrate < 64}) = 5
    /\ limit = 10
    /\ Len(results[1]) = 10

\* C8: the resolver probes the candidates in list order, returns the first
\* one whose probe answers 200 without probing any later one, and returns
\* the fallback host when every probe fails; it always returns a host.
C8_FirstHealthyOrFallback ==
    /\ \A i \in 1..Len(probes) : probes[i].server = servers[i]
    /\ \A i \in 1..(Len(probes) - 1) : ~probes[i].answered200
    /\ pc = "probe" => /\ Len(probes) < Len(servers)
                       /\ \A i \in 1..Len(probes) : ~probes[i].answered200
    /\ pc = "send" =>
          /\ Len(probes) \in 1..Len(servers)
          /\ IF probes[Len(probes)].answered200
             THEN server = servers[Len(probes)]
             ELSE /\ Len(probes) = Len(servers)
                  /\ server = "https://at1.api.radio-browser.info"

\* C8 happens: two candidates failed, the third answered 200 and is
\* returned without a probe of the fourth.
C8_Witness ==
    /\ pc = "send"
    /\ Len(probes) = 3
    /\ probes[3].answered200
    /\ server = servers[3]

\* C9: whichever genre fetches fail upstream, each failed fetch yields an
\* empty list, every genre is still fetched in the listed order, and
\* /stations and /stations/{genre} are answered 200, never 500.
C9_FailuresNeverSurface ==
    (pc = "done" /\ route \in {"all", "genre"}) =>
        /\ response.status = 200
        /\ \A g \in failed : results[g] = <<>>
        /\ route = "all" => tagsFetched = genres

\* C10 as stated: one inbound request invokes the resolver exactly once.
C10_ResolverOncePerRequest ==
    route \in {"all", "genre", "search"} => resolverCalls = 1

\* C10 amended: every fetch invokes the resolver exactly once and sends its
\* data call to the host that invocation returned; a genre or search
\* request runs the resolver once, a /stations request once per genre.
C10_ResolverOncePerFetch ==
    route \in {"all", "genre", "search"} =>
        /\ pc \in {"probe", "send"} => resolverCalls = Len(tagsFetched) + 1
        /\ pc \in {"recv", "done"} => resolverCalls = Len(tagsFetched)
        /\ pc = "recv" =>
              /\ inflight.server = server
              /\ \E i \in 1..Len(servers) : server = servers[i]
        /\ pc = "done" =>
              resolverCalls = IF route = "all" THEN Len(genres) ELSE 1

\* C10 happens: a /stations request has ended after six resolver runs.
C10_Witness ==
    /\ AllDone
    /\ resolverCalls = 6
    /\ Len(tagsFetched) = 6

====
